---------------------------- MODULE Spec2Model ----------------------------
(***************************************************************************)
(* Sentiment reconciliation engine of the B5W2 customer-UX analytics       *)
(* repository: src/src/nlp/sentiment_classifier.py (SentimentEnsembler)    *)
(* and its caller src/scripts/sentiment_pipeline.py.                       *)
(*                                                                         *)
(* Numbers.  Python floats are modelled as exact rationals on a grid:      *)
(*   - a scorer value s stands for s / ScoreDen  (s \in -ScoreDen..ScoreDen *)
(*     covers the documented range [-1,+1]);                               *)
(*   - an ensemble score e stands for e / EnsDen, EnsDen = 3 * ScoreDen,   *)
(*     so that the division by 3.0 of line 104 is exact on the grid;       *)
(*   - a threshold is a pair <<num, den>> standing for num / den.          *)
(* Floating-point rounding is not modelled.                                *)
(***************************************************************************)
EXTENDS Integers, Sequences, FiniteSets, TLC

\* Resolution of the scorer grid: scorer values are multiples of 1/ScoreDen.
ScoreDen == 20

\* Unit of ensemble scores: 1/EnsDen.
EnsDen == 3 * ScoreDen

\* Largest rating magnitude tried on direct calls of apply_rating_rule.
MaxRating == 6

\* Direct calls of flag_disagreement try thresholds k/ThresholdDen, k \in 0..MaxThresholdNum.
MaxThresholdNum == 10

\* The literal 0.05 of "ensemble_score >= 0.05" as PosThresholdNum / LabelThresholdDen.
PosThresholdNum == 5

\* The literal -0.05 of "ensemble_score <= -0.05" as NegThresholdNum / LabelThresholdDen.
NegThresholdNum == -5

\* Denominator of the two label thresholds (hundredths).
LabelThresholdDen == 100

\* The default "threshold: float = 0.5" as DefaultThresholdNum / ThresholdDen.
DefaultThresholdNum == 5

\* Denominator of flag thresholds (tenths).
ThresholdDen == 10

Labels == {"positive", "neutral", "negative"}

Scores == (0 - ScoreDen)..ScoreDen

EnsScores == (0 - EnsDen)..EnsDen

FnRatings == (0 - MaxRating)..MaxRating

Thresholds == {<<n, ThresholdDen>> : n \in 0..MaxThresholdNum}

DefaultThreshold == <<DefaultThresholdNum, ThresholdDen>>

\* abs() of Python on an integer numerator.
Abs(x) == IF x < 0 THEN 0 - x ELSE x

\* A scorer value expressed in ensemble units (s/ScoreDen = 3s/EnsDen).
ToEns(s) == s * (EnsDen \div ScoreDen)

\* Largest number of rows of the input DataFrame.
MaxRows == 2

VARIABLES
    call,        \* the last direct call of a pure method, with its arguments and result
    caller,      \* who uses the ensembler: the script sentiment_pipeline.py or a direct caller of run
    assets,      \* whether the DistilBERT tokenizer/model assets can be loaded from model_path
    columns,     \* the columns of df
    df,          \* the input DataFrame (df_reviews of the script, df of run): a sequence of rows
    pc,          \* the position of the program
    normalized,  \* the script's list `normalized`
    printed,     \* row numbers of the script's "Error at row i" diagnostics
    records,     \* the list `records` of run
    scoreCalls,  \* how many times compute_ensemble has been entered
    df_enriched, \* the DataFrame returned by run
    exc,         \* the exception that ended the program or the call of run
    exported,    \* the file reviews_with_sentiment_themes.csv
    first_df,    \* the frame a direct caller passed to its first call of run
    first_result \* the frame that first call returned, kept by the caller

\* What a direct caller keeps from its first call of run.
rerunVars == <<first_df, first_result>>

pipeVars == <<caller, assets, columns, df, pc, normalized, printed, records,
              scoreCalls, df_enriched, exc, exported, rerunVars>>

VARIABLES
    files,       \* the file system: what each path names
    filepath,    \* the argument given to DataLoader(filepath)
    loader,      \* the DataLoader object: whether it was built, and its self.filepath
    tpc,         \* the position of the user of the theme DataLoader
    texc,        \* the exception DataLoader(...) or load() raised
    loaded       \* the DataFrame load() returned

themeVars == <<files, filepath, loader, tpc, texc, loaded>>

VARIABLES
    minput,      \* the argument given to ThemeMetricsCalculator(df)
    calc,        \* the ThemeMetricsCalculator object: whether it was built, and its self.df
    bank,        \* the argument given to compute_for_bank(bank)
    mpc,         \* the position of the user of the calculator
    mexc,        \* the exception ThemeMetricsCalculator(...) or compute_for_bank raised
    metrics      \* the DataFrame compute_for_bank returned

metricsVars == <<minput, calc, bank, mpc, mexc, metrics>>

VARIABLES
    db,          \* the Oracle schema: the state of the tables banks and reviews
    last_op,     \* the last method of OracleConnector that was called
    ncalls,      \* how many methods have been called
    ddl,         \* the DROP and CREATE statements the last call executed
    oexc         \* the exception the last call raised

dbVars == <<db, last_op, ncalls, ddl, oexc>>

VARIABLES
    raw_file,    \* the raw CSV file at raw_path
    cleaner_df,  \* the field df of the ReviewDataCleaner: None, or a DataFrame
    chist,       \* the methods called on the cleaner so far, with what each raised
    out_file     \* the file export_cleaned wrote

cleanVars == <<raw_file, cleaner_df, chist, out_file>>

VARIABLES
    runner,        \* whether scraping_runner.py drives the scraper
    sbank,         \* the number of banks the runner has started on
    all_reviews,   \* the number of reviews in the runner's list all_reviews
    target_count,  \* the field target_count of the BankReviewScraper
    reviews_raw,   \* its field reviews_raw
    scrapes,       \* the calls of scrape_reviews made on it
    spc,           \* position in scrape_reviews
    collected,     \* len(collected)
    token,         \* the local token
    fetches,       \* the pages fetched in this call
    request,       \* the arguments of the last call of reviews(...)
    sexc           \* what scrape_reviews raised

scrapeVars == <<runner, sbank, all_reviews, target_count, reviews_raw, scrapes, spc,
                collected, token, fetches, request, sexc>>

\* The variables of the other programs, for the actions of each one.
sideVars == <<themeVars, metricsVars, dbVars, cleanVars, scrapeVars>>

notTheme == <<call, pipeVars, metricsVars, dbVars, cleanVars, scrapeVars>>

notMetrics == <<call, pipeVars, themeVars, dbVars, cleanVars, scrapeVars>>

notDb == <<call, pipeVars, themeVars, metricsVars, cleanVars, scrapeVars>>

notClean == <<call, pipeVars, themeVars, metricsVars, dbVars, scrapeVars>>

notScrape == <<call, pipeVars, themeVars, metricsVars, dbVars, cleanVars>>

vars == <<call, pipeVars, sideVars>>

-----------------------------------------------------------------------------
(* compute_ensemble, lines 103-122, on the three scorer values.            *)

\* A weighted mean that counts the DistilBERT score twice.
ensemble_mean_bert_twice(b_score, v_score, t_score) ==
    (2 * ToEns(b_score) + ToEns(v_score) + ToEns(t_score)) \div 4

\* (b_score + v_score + t_score) / 3.0, in ensemble units.
ensemble_mean(b_score, v_score, t_score) ==
    (ToEns(b_score) + ToEns(v_score) + ToEns(t_score)) \div 3

\* The sample standard deviation (ddof = 1, divisor 2), held as its square.
np_std_sample(b_score, v_score, t_score) ==
    LET m == ensemble_mean(b_score, v_score, t_score)
        d(s) == ToEns(s) - m
    IN  (d(b_score) * d(b_score) + d(v_score) * d(v_score) + d(t_score) * d(t_score)) \div 2

\* np.std([b, v, t]) (population standard deviation, ddof = 0), held as its
\* square in units 1/EnsDen^2: mean of the squared deviations from the mean.
np_std(b_score, v_score, t_score) ==
    LET m == ensemble_mean(b_score, v_score, t_score)
        d(s) == ToEns(s) - m
    IN  (d(b_score) * d(b_score) + d(v_score) * d(v_score) + d(t_score) * d(t_score)) \div 3

\* The label thresholds taken as exclusive bounds.
label_of_exclusive(ensemble_score) ==
    IF ensemble_score * LabelThresholdDen > PosThresholdNum * EnsDen
    THEN "positive"
    ELSE IF ensemble_score * LabelThresholdDen < NegThresholdNum * EnsDen
         THEN "negative"
         ELSE "neutral"

\* The if/elif/else of lines 108-113.
label_of(ensemble_score) ==
    IF ensemble_score * LabelThresholdDen >= PosThresholdNum * EnsDen
    THEN "positive"
    ELSE IF ensemble_score * LabelThresholdDen <= NegThresholdNum * EnsDen
         THEN "negative"
         ELSE "neutral"

\* The record returned by compute_ensemble once the three scorers returned.
ensemble_record(b_score, v_score, t_score) ==
    LET ensemble_score == ensemble_mean(b_score, v_score, t_score)
    IN  [bert        |-> b_score,
         vader       |-> v_score,
         textblob    |-> t_score,
         ensemble    |-> ensemble_score,
         label       |-> label_of(ensemble_score),
         uncertainty |-> np_std(b_score, v_score, t_score)]

-----------------------------------------------------------------------------
(* apply_rating_rule, lines 124-144.                                       *)

\* Rating 2 given the allowed set of rating 3.
allowed_two_as_three(rating) ==
    IF rating >= 2 THEN {"positive", "neutral", "negative"}
    ELSE {"negative"}

\* A rule that also constrains the high ratings: 5 stars allow only
\* "positive", 4 stars "positive" and "neutral".
allowed_symmetric(rating) ==
    IF rating >= 5 THEN {"positive"}
    ELSE IF rating = 4 THEN {"positive", "neutral"}
    ELSE IF rating = 3 THEN {"positive", "neutral", "negative"}
    ELSE IF rating = 2 THEN {"neutral", "negative"}
    ELSE {"negative"}

\* A rule that constrains only the ratings 1 and 2 and leaves a rating below
\* 1 without constraint.
allowed_in_range_only(rating) ==
    IF rating >= 3 \/ rating < 1 THEN {"positive", "neutral", "negative"}
    ELSE IF rating = 2 THEN {"neutral", "negative"}
    ELSE {"negative"}

allowed(rating) ==
    IF rating >= 5 THEN {"positive", "neutral", "negative"}
    ELSE IF rating = 4 THEN {"positive", "neutral", "negative"}
    ELSE IF rating = 3 THEN {"positive", "neutral", "negative"}
    ELSE IF rating = 2 THEN {"neutral", "negative"}
    ELSE {"negative"}

\* A fallback to the nearest label of the allowed set instead of "neutral".
apply_rating_rule_nearest(ensemble_label, rating) ==
    IF ensemble_label \in allowed(rating) THEN ensemble_label
    ELSE IF "neutral" \in allowed(rating) THEN "neutral" ELSE "negative"

apply_rating_rule(ensemble_label, rating) ==
    IF ensemble_label \in allowed(rating) THEN ensemble_label ELSE "neutral"

-----------------------------------------------------------------------------
(* flag_disagreement, lines 146-171.  ens_score is in ensemble units,      *)
(* threshold is <<num, den>>.                                              *)

rule_val(rule_label) ==
    CASE rule_label = "positive" -> 1
      [] rule_label = "neutral"  -> 0
      [] rule_label = "negative" -> 0 - 1

\* The magnitude gate taken as "at least the threshold".
flag_disagreement_inclusive(ens_label, rule_label, ens_score, threshold) ==
    /\ ens_label # rule_label
    /\ Abs(ens_score - rule_val(rule_label) * EnsDen) * threshold[2] >= threshold[1] * EnsDen

\* A flag on the magnitude alone, the two labels not compared.
flag_disagreement_magnitude_only(ens_label, rule_label, ens_score, threshold) ==
    Abs(ens_score - rule_val(rule_label) * EnsDen) * threshold[2] > threshold[1] * EnsDen

flag_disagreement(ens_label, rule_label, ens_score, threshold) ==
    /\ ens_label # rule_label
    /\ Abs(ens_score - rule_val(rule_label) * EnsDen) * threshold[2] > threshold[1] * EnsDen

-----------------------------------------------------------------------------
(* Cell values of a DataFrame and Python's conversions of them.            *)

\* A text cell: a string, or null (NaN / None).
StrCell(x) == [null |-> FALSE, s |-> x]

NullText == [null |-> TRUE, s |-> ""]

\* A rating cell: an int, a float num/den, or null (NaN).
IntCell(n) == [kind |-> "int", num |-> n, den |-> 1]

FloatCell(n, d) == [kind |-> "float", num |-> n, den |-> d]

NullRating == [kind |-> "null", num |-> 0, den |-> 1]

\* str(cell): a null cell becomes the text "nan".
PyStr(cell) == IF cell.null THEN "nan" ELSE cell.s

\* Whether int(cell) raises ValueError (float NaN cannot be converted).
PyIntRaises(cell) == cell.kind = "null"

\* int(cell) when it does not raise: truncation toward zero.
PyInt(cell) ==
    IF cell.num < 0 THEN 0 - ((0 - cell.num) \div cell.den) ELSE cell.num \div cell.den

\* Exceptions: type, the text the exception object carries, its chained cause.
NoExc == [type |-> "none", text |-> "", cause |-> "none"]

Raise(t) == [type |-> t, text |-> "", cause |-> "none"]

-----------------------------------------------------------------------------
(* The three sentiment tools (DistilBERT, VADER, TextBlob) as fixed,        *)
(* deterministic functions of the text: a value of the grid, or an         *)
(* exception of the tool.                                                  *)

ScorerNames == {"bert", "vader", "textblob"}

Returned(v) == [raised |-> FALSE, val |-> v, exc |-> NoExc]

Raised(e) == [raised |-> TRUE, val |-> 0, exc |-> e]

\* The text on which the tokenizer fails (malformed encoding).
Malformed == "<malformed>"

\* The texts that reach the scorers.
ScoredTexts == {"love", "awful", "nan", "", Malformed}

\* What a tool does on a text.
Tool(name, text) ==
    CASE text = "love"    -> Returned(ScoreDen)
      [] text = "awful"   -> Returned(IF name = "bert" THEN 0 - ScoreDen
                                      ELSE IF name = "vader" THEN 0 - (ScoreDen \div 2)
                                      ELSE 0 - (ScoreDen \div 4))
      [] text = "nan"     -> Returned(IF name = "bert" THEN ScoreDen \div 5 ELSE 0)
      [] text = ""        -> Returned(IF name = "bert" THEN ScoreDen \div 2 ELSE 0)
      [] text = Malformed -> IF name = "bert" THEN Raised(Raise("UnicodeEncodeError"))
                             ELSE Returned(0)

\* What the tools can do on direct calls of the adapters.
ToolOutcomes ==
    {Returned(v) : v \in Scores}
        \cup {Raised(Raise(t)) : t \in {"UnicodeEncodeError", "RuntimeError", "LookupError"}}

\* A scorer whose model was left in training mode: dropout makes the value
\* depend on how many texts the object has scored before.
scorer_adapter_dropout(text, outcome) ==
    IF outcome.raised THEN outcome
    ELSE Returned(IF scoreCalls % 2 = 1 /\ outcome.val > 0
                  THEN outcome.val - 1 ELSE outcome.val)

\* _bert_score / _vader_score / _textblob_score, lines 55-85: float(...) of the
\* tool's value; nothing is caught, an exception of the tool propagates as it is.
scorer_adapter(text, outcome) ==
    IF outcome.raised THEN outcome ELSE Returned(outcome.val)

\* compute_ensemble(text), lines 99-122: the scorers are called in the order
\* bert, vader, textblob; the first exception propagates.
compute_ensemble(text) ==
    LET b == scorer_adapter(text, Tool("bert", text))
        v == scorer_adapter(text, Tool("vader", text))
        t == scorer_adapter(text, Tool("textblob", text))
    IN  IF b.raised THEN [raised |-> TRUE, exc |-> b.exc, rec |-> ensemble_record(0, 0, 0)]
        ELSE IF v.raised THEN [raised |-> TRUE, exc |-> v.exc, rec |-> ensemble_record(0, 0, 0)]
        ELSE IF t.raised THEN [raised |-> TRUE, exc |-> t.exc, rec |-> ensemble_record(0, 0, 0)]
        ELSE [raised |-> FALSE, exc |-> NoExc, rec |-> ensemble_record(b.val, v.val, t.val)]

\* A record that is also flagged when the scorers disagree strongly
\* (standard deviation above 0.5).
with_rule_uncertain(rec, rating) ==
    LET rule_label == apply_rating_rule(rec.label, rating)
    IN  [bert        |-> rec.bert,
         vader       |-> rec.vader,
         textblob    |-> rec.textblob,
         ensemble    |-> rec.ensemble,
         label       |-> rec.label,
         uncertainty |-> rec.uncertainty,
         rule_label  |-> rule_label,
         flag        |-> \/ flag_disagreement(rec.label, rule_label, rec.ensemble,
                                              DefaultThreshold)
                         \/ 4 * rec.uncertainty > EnsDen * EnsDen]

\* A sentiment record with the two fields run adds to it (lines 204-207).
with_rule(rec, rating) ==
    LET rule_label == apply_rating_rule(rec.label, rating)
    IN  [bert        |-> rec.bert,
         vader       |-> rec.vader,
         textblob    |-> rec.textblob,
         ensemble    |-> rec.ensemble,
         label       |-> rec.label,
         uncertainty |-> rec.uncertainty,
         rule_label  |-> rule_label,
         flag        |-> flag_disagreement(rec.label, rule_label, rec.ensemble,
                                           DefaultThreshold)]

\* An iteration that applies the rating rule with the rating of the row
\* before it (a stale loop variable).
run_row_stale_rating(row) ==
    LET prev == IF Len(records) > 0 /\ Len(records) <= Len(df)
                THEN df[Len(records)] ELSE row
    IN  IF PyIntRaises(row.rating) \/ PyIntRaises(prev.rating)
        THEN [raised |-> TRUE, scored |-> FALSE, exc |-> Raise("ValueError"),
              rec |-> with_rule(ensemble_record(0, 0, 0), 0)]
        ELSE LET out == compute_ensemble(PyStr(row.normalized_review))
             IN  IF out.raised
                 THEN [raised |-> TRUE, scored |-> TRUE, exc |-> out.exc,
                       rec |-> with_rule(ensemble_record(0, 0, 0), 0)]
                 ELSE [raised |-> FALSE, scored |-> TRUE, exc |-> NoExc,
                       rec |-> with_rule(out.rec, PyInt(prev.rating))]

\* One iteration of the loop of run, lines 200-208, on a row.
run_row(row) ==
    IF PyIntRaises(row.rating)
    THEN [raised |-> TRUE, scored |-> FALSE, exc |-> Raise("ValueError"),
          rec |-> with_rule(ensemble_record(0, 0, 0), 0)]
    ELSE LET out == compute_ensemble(PyStr(row.normalized_review))
         IN  IF out.raised
             THEN [raised |-> TRUE, scored |-> TRUE, exc |-> out.exc,
                   rec |-> with_rule(ensemble_record(0, 0, 0), 0)]
             ELSE [raised |-> FALSE, scored |-> TRUE, exc |-> NoExc,
                   rec |-> with_rule(out.rec, PyInt(row.rating))]

-----------------------------------------------------------------------------
(* DataFrames: sequences of rows; a row has an index label and its cells.  *)

\* A DataFrame variable that has not been assigned / a file not written.
NoFrame == [set |-> FALSE, rows |-> <<>>]

Frame(rows) == [set |-> TRUE, rows |-> rows]

\* The cells of a row of df (without its index label).
cells_of(row) ==
    [review |-> row.review, rating |-> row.rating,
     normalized_review |-> row.normalized_review]

\* A missing (NaN) sentiment record and missing cells, as an outer join fills them in.
NaNRecord == with_rule(ensemble_record(0, 0, 0), 0)

NaNCells == [review |-> NullText, rating |-> NullRating, normalized_review |-> NullText]

\* df as an indexed frame.
frame_of(d) == [k \in 1..Len(d) |-> [index |-> d[k].index, data |-> cells_of(d[k])]]

\* pd.DataFrame(records, index=df.index), line 211: the k-th record gets the
\* k-th index label.
frame_from_records(recs, d) ==
    [k \in 1..Len(recs) |-> [index |-> d[k].index, data |-> recs[k]]]

\* frame.reset_index(drop=True): the labels become 0..n-1.
reset_index(frame) ==
    [k \in 1..Len(frame) |-> [index |-> k - 1, data |-> frame[k].data]]

\* pd.concat([left, right], axis=1) on frames with unique labels, lines 213-215:
\* an outer join on the index labels, the labels of left first.
concat_axis1(left, right) ==
    LET has(frame, l) == \E k \in 1..Len(frame) : frame[k].index = l
        at(frame, l)  == frame[CHOOSE k \in 1..Len(frame) : frame[k].index = l].data
        rightLabels   == [k \in 1..Len(right) |-> right[k].index]
        labels        == [k \in 1..Len(left) |-> left[k].index]
                             \o SelectSeq(rightLabels, LAMBDA l : ~has(left, l))
    IN  [k \in 1..Len(labels) |->
            [index    |-> labels[k],
             has_orig |-> has(left, labels[k]),
             orig     |-> IF has(left, labels[k]) THEN at(left, labels[k]) ELSE NaNCells,
             has_sent |-> has(right, labels[k]),
             sent     |-> IF has(right, labels[k]) THEN at(right, labels[k]) ELSE NaNRecord]]

\* The result frame built without resetting the index of the sentiment frame.
run_result_sent_not_reset(d, recs) ==
    concat_axis1(reset_index(frame_of(d)), frame_from_records(recs, d))

\* The return value of run, lines 210-215.
run_result(d, recs) ==
    concat_axis1(reset_index(frame_of(d)), reset_index(frame_from_records(recs, d)))

-----------------------------------------------------------------------------
(* The theme DataLoader (src/visualization/theme_data_loader.py): files,   *)
(* CSV contents and the parsing of the themes column.                      *)

\* Largest number of rows of a CSV file.
MaxThemeRows == 2

\* load, lines 77-84: the columns load requires.
required == {"review", "rating", "ensemble", "bank", "themes", "date"}

\* Column names a CSV file may have.
CsvColumns == required \cup {"reviewId"}

\* A field of the themes column in the file: a text, or nothing between the
\* two commas.
ThemesStr(x) == [nan |-> FALSE, text |-> x]

ThemesNaN == [nan |-> TRUE, text |-> ""]

ThemesCells ==
    {ThemesStr("['UX', 'Fees']"), ThemesStr("'UX'"), ThemesStr("[UX, Fees"),
     ThemesStr("UX"), ThemesStr("5"), ThemesStr("{['UX']}"), ThemesNaN}

\* The fields pd.read_csv takes for numbers.
numeric(text) == text = "5"

\* A cell of the themes column as read_csv gives it: NaN for an empty
\* field; a number when every non-empty field of the column is numeric (the
\* column is then int64 or float64), a str otherwise (object column).
StrCellOf(field) == [nan |-> field.nan, num |-> FALSE, text |-> field.text]

NumCellOf(field) == [nan |-> field.nan, num |-> ~field.nan, text |-> field.text]

infer_dtype(fields) ==
    IF /\ \E k \in 1..Len(fields) : ~fields[k].nan
       /\ \A k \in 1..Len(fields) : fields[k].nan \/ numeric(fields[k].text)
    THEN [k \in 1..Len(fields) |-> NumCellOf(fields[k])]
    ELSE [k \in 1..Len(fields) |-> StrCellOf(fields[k])]

\* ast.literal_eval(cell) on the strings above: a list, another literal, or
\* an exception: SyntaxError for the unclosed bracket, ValueError for the
\* bare name, TypeError (unhashable type: 'list') for the set of a list.
literal_eval(text) ==
    CASE text = "['UX', 'Fees']" -> [raises |-> "none", islist |-> TRUE,  val |-> <<"UX", "Fees">>]
      [] text = "'UX'"           -> [raises |-> "none", islist |-> FALSE, val |-> "UX"]
      [] text = "5"              -> [raises |-> "none", islist |-> FALSE, val |-> "5"]
      [] text = "[UX, Fees"      -> [raises |-> "SyntaxError", islist |-> FALSE, val |-> <<>>]
      [] text = "{['UX']}"       -> [raises |-> "TypeError", islist |-> FALSE, val |-> <<>>]
      [] OTHER                   -> [raises |-> "ValueError", islist |-> FALSE, val |-> <<>>]

\* A value of the themes column after load: a list of items, or the cell as
\* it was (NaN, or a number).
ThemesList(items) == [nan |-> FALSE, list |-> TRUE, items |-> items]

ThemesMissing == [nan |-> TRUE, list |-> FALSE, items |-> <<>>]

ThemesAsIs(text) == [nan |-> FALSE, list |-> FALSE, items |-> <<text>>]

\* _parse_themes(cell), lines 94-128 (cells from read_csv are never lists):
\* the value, or the exception that leaves the method.
parse_themes(cell) ==
    IF cell.nan THEN [raises |-> "none", val |-> ThemesMissing]
    ELSE IF cell.num THEN [raises |-> "none", val |-> ThemesAsIs(cell.text)]
    ELSE LET parsed == literal_eval(cell.text)
         IN  IF parsed.raises \in {"ValueError", "SyntaxError"}
             THEN [raises |-> "none", val |-> ThemesList(<<cell.text>>)]
             ELSE IF parsed.raises # "none"
             THEN [raises |-> parsed.raises, val |-> ThemesMissing]
             ELSE IF parsed.islist
             THEN [raises |-> "none", val |-> ThemesList(parsed.val)]
             ELSE [raises |-> "none", val |-> ThemesList(<<parsed.val>>)]

\* A load that leaves out the rows it has no themes for (dropna).
apply_parse_themes_dropna(cells) ==
    LET kept == SelectSeq(cells, LAMBDA c : ~c.nan)
    IN  [k \in 1..Len(kept) |-> parse_themes(kept[k])]

\* df["themes"].apply(self._parse_themes), line 89: one result per row.
apply_parse_themes(cells) == [k \in 1..Len(cells) |-> parse_themes(cells[k])]

\* What a path names: nothing, a directory, a zero-byte file, or a CSV file
\* with a header line (its columns) and rows (their themes cells).
Absent == [kind |-> "absent", columns |-> {}, themes |-> <<>>]

Directory == [kind |-> "dir", columns |-> {}, themes |-> <<>>]

EmptyFile == [kind |-> "empty", columns |-> {}, themes |-> <<>>]

CsvFile(cols, cells) == [kind |-> "csv", columns |-> cols, themes |-> cells]

\* The rows of a file with these columns: without a themes column the rows
\* have no themes cell (held as NaN).
RowsOf(cols) ==
    UNION {[1..n -> (IF "themes" \in cols THEN ThemesCells ELSE {ThemesNaN})] :
               n \in 0..MaxThemeRows}

CsvFiles ==
    UNION {{CsvFile(cols, cells) : cells \in RowsOf(cols)} : cols \in SUBSET CsvColumns}

Paths == {"data.csv", "nonexistent.csv", "fixtures"}

\* Arguments of DataLoader(filepath): a string, or something else
\* (DataLoader(123) in the tests).
PathArgs ==
    {[isstr |-> TRUE, s |-> x] : x \in Paths} \cup {[isstr |-> FALSE, s |-> "123"]}

\* os.path.isfile(path), line 61.
isfile(fs, path) == path \in DOMAIN fs /\ fs[path].kind \in {"empty", "csv"}

NoLoader == [built |-> FALSE, filepath |-> ""]

NoThemeExc == [type |-> "none", names |-> {}]

NoThemeFrame == [set |-> FALSE, columns |-> {}, themes |-> <<>>]

\* A check that stops at the first required column it does not find.
missing_columns_first_only(cols) ==
    IF required \ cols = {} THEN {} ELSE {CHOOSE c \in required \ cols : TRUE}

\* load, line 80: the required columns that df.columns lacks.
missing_columns(cols) == required \ cols

\* The theme DataLoader while it is not used.
ThemeIdle ==
    /\ files = [x \in Paths |-> Absent]
    /\ filepath = [isstr |-> TRUE, s |-> ""]
    /\ loader = NoLoader
    /\ tpc = "idle"
    /\ texc = NoThemeExc
    /\ loaded = NoThemeFrame

-----------------------------------------------------------------------------
(* ThemeMetricsCalculator (src/visualization/theme_metrics.py).            *)

\* Largest number of rows of the DataFrame given to the calculator.
MaxMetricRows == 2

\* A row of the enriched dataset: its bank, whether its review cell is null,
\* its themes (a list, or NaN), its ensemble score (in ensemble units) and
\* its rating.
MetricRow(b, null, th, e, r) ==
    [bank |-> b, review_null |-> null, themes |-> th, ensemble |-> e, rating |-> r]

MetricRows ==
    {MetricRow("CBE", FALSE, ThemesList(<<"UX">>), EnsDen, 5),
     MetricRow("CBE", FALSE, ThemesList(<<"UX", "Fees">>), 0 - EnsDen, 1),
     MetricRow("CBE", TRUE,  ThemesList(<<"UX">>), EnsDen, 4),
     MetricRow("CBE", FALSE, ThemesList(<<"Fees", "Fees">>), 0 - EnsDen, 2),
     MetricRow("CBE", FALSE, ThemesMissing, 0, 3),
     MetricRow("CBE", FALSE, ThemesList(<<"Fees">>), EnsDen, 3),
     MetricRow("BOA", FALSE, ThemesList(<<"UX">>), 0 - EnsDen, 1),
     MetricRow("BOA", FALSE, ThemesList(<<>>), EnsDen, 5)}

\* The columns named in the module docstring, lines 18-19.
documented_columns == {"review", "rating", "ensemble", "bank", "themes"}

MetricColumnSets ==
    {documented_columns} \cup {documented_columns \ {c} : c \in documented_columns}

\* Arguments of ThemeMetricsCalculator(df): a DataFrame, or something else
\* ("not_a_dataframe" in the tests).
NotAFrame == [isframe |-> FALSE, columns |-> {}, rows |-> <<>>]

MetricFrame(cols, rows) == [isframe |-> TRUE, columns |-> cols, rows |-> rows]

MetricInputs ==
    {NotAFrame} \cup
    {MetricFrame(cols, rows) :
        cols \in MetricColumnSets,
        rows \in UNION {[1..n -> MetricRows] : n \in 0..MaxMetricRows}}

\* Arguments of compute_for_bank(bank): a string, or something else (123).
BankArgs ==
    {[isstr |-> TRUE, s |-> "CBE"], [isstr |-> TRUE, s |-> "BOA"],
     [isstr |-> TRUE, s |-> "ZebraBank"], [isstr |-> FALSE, s |-> "123"]}

NoCalc == [built |-> FALSE, df |-> NotAFrame]

NoMetricExc == "none"

NoMetrics == [set |-> FALSE, rows |-> <<>>]

\* The calculator while it is not used.
MetricsIdle ==
    /\ minput = NotAFrame
    /\ calc = NoCalc
    /\ bank = [isstr |-> TRUE, s |-> ""]
    /\ mpc = "idle"
    /\ mexc = NoMetricExc
    /\ metrics = NoMetrics

\* A selection that keeps every row, whatever its bank.
select_bank_all(rows, b) == rows

\* self.df[self.df["bank"] == bank], line 55.
select_bank(rows, b) == SelectSeq(rows, LAMBDA r : r.bank = b)

\* sub.explode("themes"), line 59: one row per item of a list; a row with an
\* empty list or NaN stays one row, with NaN for its themes.
ExplodedRow(row, th, isnan) ==
    [themes |-> th, nan |-> isnan, review_null |-> row.review_null,
     ensemble |-> row.ensemble, rating |-> row.rating]

explode_row(row) ==
    IF row.themes.nan \/ Len(row.themes.items) = 0
    THEN <<ExplodedRow(row, "", TRUE)>>
    ELSE [i \in 1..Len(row.themes.items) |-> ExplodedRow(row, row.themes.items[i], FALSE)]

RECURSIVE explode(_)
explode(rows) ==
    IF rows = <<>> THEN <<>> ELSE explode_row(Head(rows)) \o explode(Tail(rows))

RECURSIVE SeqSum(_)
SeqSum(q) == IF q = <<>> THEN 0 ELSE Head(q) + SeqSum(Tail(q))

\* The groups of groupby("themes"), line 62: the non-null themes values.
group_keys(exploded) == {exploded[k].themes : k \in {j \in 1..Len(exploded) : ~exploded[j].nan}}

\* agg(...) and composite_score, lines 63-73, for one group: mentions counts
\* the non-null review cells, the two means are over all rows of the group
\* (no ensemble or rating is null here); a mean is <<sum, count>>, and
\* composite_score = mentions * avg_sentiment * avg_rating a fraction
\* <<numerator, denominator>>.
metric_row(exploded, t) ==
    LET g == SelectSeq(exploded, LAMBDA x : ~x.nan /\ x.themes = t)
        n == Len(g)
        mentions == Len(SelectSeq(g, LAMBDA x : ~x.review_null))
        sum_e == SeqSum([k \in 1..n |-> g[k].ensemble])
        sum_r == SeqSum([k \in 1..n |-> g[k].rating])
    IN  [themes |-> t, mentions |-> mentions,
         avg_sentiment |-> <<sum_e, n>>, avg_rating |-> <<sum_r, n>>,
         composite_score |-> <<mentions * sum_e * sum_r, n * n>>]

\* sort_values("mentions", ascending=False), line 75: the orders of the
\* metric rows with no row before one of more mentions (the default sort is
\* not stable: rows of equal mentions come in any order).
sort_values(rowset) ==
    {q \in [1..Cardinality(rowset) -> rowset] :
        /\ \A i, j \in 1..Cardinality(rowset) : i # j => q[i] # q[j]
        /\ \A i, j \in 1..Cardinality(rowset) : i < j => q[i].mentions >= q[j].mentions}

-----------------------------------------------------------------------------
(* OracleConnector (src/db/oracle_connector.py): the schema and the DDL.   *)

\* Largest number of method calls on one connector.
MaxDbCalls == 3

Tables == {"banks", "reviews"}

\* A table of the user schema: absent, empty or holding rows; a table can be
\* locked by another session, and DROP TABLE then fails (ORA-00054).
Table(st, lk) == [state |-> st, locked |-> lk]

TableStates ==
    {Table("absent", FALSE)} \cup {Table(st, lk) : st \in {"empty", "rows"}, lk \in BOOLEAN}

\* _table_exists(table), lines 93-115.
table_exists(d, t) == d[t].state # "absent"

\* One turn of the loop of drop_tables, lines 121-133, on a schema: DROP
\* TABLE only if the table exists; a failure of the DROP is logged and
\* swallowed, the table stays.
drop_one(d, t) ==
    IF table_exists(d, t) /\ ~d[t].locked
    THEN [d EXCEPT ![t] = Table("absent", FALSE)]
    ELSE d

\* One of the two blocks of create_schema, lines 142-179: CREATE TABLE only
\* if the table is missing.
create_one(d, t) ==
    IF ~table_exists(d, t) THEN [d EXCEPT ![t] = Table("empty", FALSE)] ELSE d

\* A statement a call executed, with what the table was before it.
Statement(kind, t, d) == [stmt |-> kind, table |-> t, before |-> d[t].state]

\* The connector while it is not used.
DbIdle ==
    /\ db = [t \in Tables |-> Table("absent", FALSE)]
    /\ last_op = "none"
    /\ ncalls = 0
    /\ ddl = {}
    /\ oexc = "none"

-----------------------------------------------------------------------------
(* ReviewDataCleaner (src/cleaning/review_cleaner.py).                     *)

\* Largest number of rows of the raw file, and of method calls on a cleaner.
MaxRawRows == 2

MaxCleanerCalls == 3

\* A row of the raw file: its review (a text, or null), whether one of the
\* other required cells (rating, date, bank, source) is null, and its
\* reviewId.
RawRow(rev, isnull, id) == [review |-> rev, required_null |-> isnull, reviewId |-> id]

RawRows ==
    {RawRow(rev, isnull, id) :
        rev \in {NullText, StrCell("good"), StrCell("  "), StrCell("so  so ")},
        isnull \in BOOLEAN,
        id \in {"r1", "r2"}}

\* The raw file: missing, or a CSV file with or without a reviewId column.
NoRawFile == [exists |-> FALSE, has_id |-> FALSE, rows |-> <<>>]

RawFiles ==
    {NoRawFile} \cup
    {[exists |-> TRUE, has_id |-> h, rows |-> rows] :
        h \in BOOLEAN,
        rows \in UNION {[1..n -> RawRows] : n \in 0..MaxRawRows}}

\* self.df = None (line 45), and a DataFrame.
NoneFrame == [set |-> FALSE, has_id |-> FALSE, float_review |-> FALSE, rows |-> <<>>]

CleanerFrame(h, fl, rows) == [set |-> TRUE, has_id |-> h, float_review |-> fl, rows |-> rows]

\* pd.read_csv(self.raw_path), line 58: a review column with rows and
\* nothing but empty fields is read as float64.
read_raw(f) ==
    CleanerFrame(f.has_id,
                 Len(f.rows) > 0 /\ \A k \in 1..Len(f.rows) : f.rows[k].review.null,
                 f.rows)

\* str.strip() and str.replace(r"\s+", " ").str.strip() on the texts above.
strip(text) == CASE text = "  " -> "" [] text = "so  so " -> "so  so" [] OTHER -> text

normalize_whitespace(text) ==
    CASE text = "  " -> "" [] text = "so  so " -> "so so" [] text = "so  so" -> "so so"
      [] OTHER -> text

\* dropna(subset=REQUIRED_COLUMNS), line 88.
dropna_required(rows) == SelectSeq(rows, LAMBDA r : ~r.review.null /\ ~r.required_null)

\* df_clean[df_clean["review"].str.strip().astype(bool)], line 93.
drop_blank(rows) == SelectSeq(rows, LAMBDA r : strip(r.review.s) # "")

\* drop_duplicates(subset="reviewId"), line 101: the first row of each
\* reviewId is kept.
drop_duplicates(rows) ==
    LET keep == {k \in 1..Len(rows) : \A j \in 1..(k - 1) : rows[j].reviewId # rows[k].reviewId}
        RECURSIVE pick(_)
        pick(k) == IF k > Len(rows) THEN <<>>
                   ELSE (IF k \in keep THEN <<rows[k]>> ELSE <<>>) \o pick(k + 1)
    IN  pick(1)

\* The cleaning steps of clean(), lines 88-107, on the rows of a frame.
clean_rows(rows, h) ==
    LET kept == drop_blank(dropna_required(rows))
        dedup == IF h THEN drop_duplicates(kept) ELSE kept
    IN  [k \in 1..Len(dedup) |->
            [dedup[k] EXCEPT !.review = StrCell(normalize_whitespace(dedup[k].review.s))]]

\* The cleaner while it is not used.
CleanIdle ==
    /\ raw_file = NoRawFile
    /\ cleaner_df = NoneFrame
    /\ chist = <<>>
    /\ out_file = NoneFrame

-----------------------------------------------------------------------------
(* BankReviewScraper (src/scraper/review_scraper.py) and the loop of       *)
(* scripts/scraping_runner.py.                                             *)

\* The largest number of reviews asked of one page (line 93).
PageMax == 200

\* REVIEW_TARGET of the runner, also the default of target_count.
REVIEW_TARGET == 400

\* The banks of the runner's dict BANKS.
NumBanks == 3

\* Largest number of calls of scrape_reviews a direct caller makes on one
\* scraper.
MaxScrapes == 2

\* Values of target_count a direct caller constructs the scraper with.
Targets == {0 - 1, 0, 1, PageMax, PageMax + 50, REVIEW_TARGET}

\* Sizes of the batch a fetch returns: google_play_scraper is free to return
\* fewer reviews than asked for, or none.
BatchSizes == {0, 50, 150, PageMax}

\* Continuation tokens: None, or the token returned with page k.
NoToken == [none |-> TRUE, page |-> 0]

Token(k) == [none |-> FALSE, page |-> k]

\* Arguments count and continuation_token of a call of reviews(...).
NoRequest == [made |-> FALSE, count |-> 0, token |-> NoToken]

Request(c, t) == [made |-> TRUE, count |-> c, token |-> t]

\* A count that is always the page maximum, whatever is still missing.
page_max_only(a, b) == a

Min(a, b) == IF a < b THEN a ELSE b

\* self.reviews_raw: a list of n structured reviews, made by the call
\* number `by` of scrape_reviews (0: the empty list of the constructor).
EmptyReviews == [n |-> 0, by |-> 0]

\* _format_full_reviews(collected), lines 118-147: one structured review
\* for each collected one.
format_full_reviews(n, by) == [n |-> n, by |-> by]

\* The scraper while it is not used.
ScrapeIdle ==
    /\ runner = FALSE
    /\ sbank = 0
    /\ all_reviews = 0
    /\ target_count = REVIEW_TARGET
    /\ reviews_raw = EmptyReviews
    /\ scrapes = 0
    /\ spc = "idle"
    /\ collected = 0
    /\ token = NoToken
    /\ fetches = 0
    /\ request = NoRequest
    /\ sexc = "none"

-----------------------------------------------------------------------------
(* Direct calls of the pure methods, on every input of the grid: one call   *)
(* per behaviour, made on a fresh object.                                  *)

NoCall ==
    [fn |-> "none", label |-> "neutral", rule_label |-> "neutral", rating |-> 0,
     score |-> 0, threshold |-> DefaultThreshold, rec |-> ensemble_record(0, 0, 0),
     ret |-> "neutral", flag |-> FALSE, scorer |-> "none", text |-> "",
     tool |-> Returned(0), out |-> Returned(0),
     full |-> with_rule(ensemble_record(0, 0, 0), 0)]

\* The pipeline variables while only the pure methods are called.
PipeIdle ==
    /\ caller = "direct"
    /\ assets = TRUE
    /\ columns = {}
    /\ df = <<>>
    /\ pc = "idle"
    /\ normalized = <<>>
    /\ printed = {}
    /\ records = <<>>
    /\ scoreCalls = 0
    /\ df_enriched = NoFrame
    /\ exc = NoExc
    /\ exported = NoFrame
    /\ first_df = <<>>
    /\ first_result = NoFrame

FnInit ==
    call = NoCall /\ PipeIdle /\ ThemeIdle /\ MetricsIdle /\ DbIdle /\ CleanIdle /\ ScrapeIdle

CallComputeEnsemble ==
    /\ call.fn = "none"
    /\ \E b \in Scores, v \in Scores, t \in Scores :
        call' = [NoCall EXCEPT !.fn = "compute_ensemble",
                               !.rec = ensemble_record(b, v, t)]
    /\ UNCHANGED <<pipeVars, sideVars>>

CallApplyRatingRule ==
    /\ call.fn = "none"
    /\ \E l \in Labels, r \in FnRatings :
        call' = [NoCall EXCEPT !.fn = "apply_rating_rule", !.label = l, !.rating = r,
                               !.ret = apply_rating_rule(l, r)]
    /\ UNCHANGED <<pipeVars, sideVars>>

CallFlagDisagreement ==
    /\ call.fn = "none"
    /\ \E l \in Labels, rl \in Labels, s \in EnsScores, th \in Thresholds :
        call' = [NoCall EXCEPT !.fn = "flag_disagreement", !.label = l, !.rule_label = rl,
                               !.score = s, !.threshold = th,
                               !.flag = flag_disagreement(l, rl, s, th)]
    /\ UNCHANGED <<pipeVars, sideVars>>

\* A direct call of _bert_score, _vader_score or _textblob_score on a text, the
\* underlying tool returning a value or raising.
CallScorerAdapter ==
    /\ call.fn = "none"
    /\ \E name \in ScorerNames, text \in ScoredTexts, o \in ToolOutcomes :
        call' = [NoCall EXCEPT !.fn = "scorer_adapter", !.scorer = name, !.text = text,
                               !.tool = o, !.out = scorer_adapter(text, o)]
    /\ UNCHANGED <<pipeVars, sideVars>>

\* The scorer values of the records built by CallScoreRecord: every
\* RecordStep-th value of the grid, the two ends and the two smallest values.
RecordStep == 2

RecordScores ==
    {s \in Scores : s % RecordStep = 0 \/ Abs(s) = 1 \/ Abs(s) = ScoreDen}

\* The body of run's loop, lines 203-207, for scorer values b, v, t and an
\* integer rating: compute_ensemble, then apply_rating_rule, then
\* flag_disagreement with the default threshold.
CallScoreRecord ==
    /\ call.fn = "none"
    /\ \E b \in RecordScores, v \in RecordScores, t \in RecordScores, r \in FnRatings :
        call' = [NoCall EXCEPT !.fn = "score_record", !.rating = r,
                               !.full = with_rule(ensemble_record(b, v, t), r)]
    /\ UNCHANGED <<pipeVars, sideVars>>

FnNext ==
    \/ CallScoreRecord
    \/ CallComputeEnsemble
    \/ CallApplyRatingRule
    \/ CallFlagDisagreement
    \/ CallScorerAdapter

SpecFn == FnInit /\ [][FnNext]_vars

-----------------------------------------------------------------------------
(* The text normaliser of the script (TextNormalizer.normalize), a         *)
(* collaborator: a fixed function of the raw text that may raise.          *)

\* The raw review on which the normaliser raises.
NormalizerCrash == "<crash>"

normalize_raises(text) == text = NormalizerCrash

normalize(text) ==
    CASE text = "Love it!" -> "love"
      [] text = "AWFUL"    -> "awful"
      [] text = "nan"      -> "nan"
      [] OTHER             -> ""

-----------------------------------------------------------------------------
(* Inputs.                                                                 *)

\* Raw review cells of the CSV the script loads.
RawReviews == {StrCell("Love it!"), StrCell("AWFUL"), NullText, StrCell(NormalizerCrash)}

\* Text cells of the text column a direct caller passes to run.
TextCells == {StrCell("love"), StrCell("awful"), NullText, StrCell(Malformed)}

\* Rating cells: 1, 2, 5, the out-of-range 0 and 7, the float 2.5 and null.
RatingCells ==
    {IntCell(1), IntCell(2), IntCell(5), IntCell(0), IntCell(7), FloatCell(5, 2), NullRating}

\* Index labels of a frame of n rows a direct caller passes: the default
\* RangeIndex, a reversed one, or one that starts at 1 (rows filtered out).
IndexPatterns == {"range", "reversed", "shifted"}

index_label(pattern, n, k) ==
    CASE pattern = "range"    -> k - 1
      [] pattern = "reversed" -> n - k
      [] pattern = "shifted"  -> k

\* The column sets of the loaded CSV: complete, without a text column,
\* without the rating column.
ScriptColumnSets == {{"review", "rating"}, {"rating"}, {"review"}}

\* The column sets a direct caller passes.
DirectColumnSets ==
    {{"review", "rating", "normalized_review"}, {"review", "rating"},
     {"review", "normalized_review"}}

\* pd.read_csv gives a RangeIndex; normalized_review does not exist yet.
ScriptFrames(n, cols) ==
    {[k \in 1..n |-> [index |-> k - 1, review |-> g[k][1], rating |-> g[k][2],
                      normalized_review |-> NullText]] :
        g \in [1..n -> (IF "review" \in cols THEN RawReviews ELSE {NullText})
                         \X (IF "rating" \in cols THEN RatingCells ELSE {NullRating})]}

DirectFrames(n, cols) ==
    {[k \in 1..n |-> [index |-> index_label(p, n, k), review |-> NullText,
                      rating |-> g[k][2], normalized_review |-> g[k][1]]] :
        p \in IndexPatterns,
        g \in [1..n -> (IF "normalized_review" \in cols THEN TextCells ELSE {NullText})
                         \X (IF "rating" \in cols THEN RatingCells ELSE {NullRating})]}

Init ==
    /\ call = NoCall
    /\ caller \in {"script", "direct"}
    /\ assets \in BOOLEAN
    /\ columns \in (IF caller = "script" THEN ScriptColumnSets ELSE DirectColumnSets)
    /\ \E n \in 0..MaxRows :
        df \in (IF caller = "script" THEN ScriptFrames(n, columns)
                                     ELSE DirectFrames(n, columns))
    /\ pc = (IF caller = "script" THEN "load" ELSE "construct")
    /\ normalized = <<>>
    /\ printed = {}
    /\ records = <<>>
    /\ scoreCalls = 0
    /\ df_enriched = NoFrame
    /\ exc = NoExc
    /\ exported = NoFrame
    /\ first_df = <<>>
    /\ first_result = NoFrame
    /\ ThemeIdle
    /\ MetricsIdle
    /\ DbIdle
    /\ CleanIdle
    /\ ScrapeIdle

-----------------------------------------------------------------------------
(* sentiment_pipeline.py and SentimentEnsembler.run, step by step.         *)

\* Where an exception of the ensembler ends up: the script's run call is
\* outside any try (the script dies with a traceback); a direct caller gets it.
uncaught == IF caller = "script" THEN "crashed" ELSE "raised"

\* Script lines 49-55: ReviewDataLoader.load raises ValueError on an empty
\* frame; the script prints and exits with status 1.
Load ==
    /\ pc = "load"
    /\ IF Len(df) = 0
       THEN /\ exc' = Raise("ValueError")
            /\ pc' = "exit1"
       ELSE /\ exc' = exc
            /\ pc' = "source_col"
    /\ UNCHANGED <<sideVars, rerunVars, call, caller, assets, columns, df, normalized, printed, records,
                   scoreCalls, df_enriched, exported>>

\* Script lines 70-78: the source text column, or exit 1.
SourceCol ==
    /\ pc = "source_col"
    /\ pc' = (IF "review" \in columns THEN "normalize" ELSE "exit1")
    /\ UNCHANGED <<sideVars, rerunVars, call, caller, assets, columns, df, normalized, printed, records,
                   scoreCalls, df_enriched, exc, exported>>

\* Script lines 83-94: one iteration of the normalisation loop; an exception
\* of the normaliser is printed and "" is appended.  After the last row the
\* list becomes the column normalized_review.
NormalizeRow ==
    /\ pc = "normalize"
    /\ Len(normalized) < Len(df)
    /\ LET i    == Len(normalized) + 1
           text == PyStr(df[i].review)
           new  == Append(normalized, IF normalize_raises(text) THEN "" ELSE normalize(text))
       IN  /\ normalized' = new
           /\ printed' = (IF normalize_raises(text) THEN printed \cup {i} ELSE printed)
           /\ IF i = Len(df)
              THEN /\ df' = [k \in 1..Len(df) |->
                                [df[k] EXCEPT !.normalized_review = StrCell(new[k])]]
                   /\ columns' = columns \cup {"normalized_review"}
                   /\ pc' = "construct"
              ELSE UNCHANGED <<df, columns, pc>>
    /\ UNCHANGED <<sideVars, rerunVars, call, caller, assets, records, scoreCalls, df_enriched, exc, exported>>

\* A constructor that defers loading the assets: construction always succeeds.
Construct_lazy ==
    /\ pc = "construct"
    /\ pc' = "run"
    /\ UNCHANGED <<sideVars, rerunVars, call, caller, assets, columns, df, normalized, printed, records,
                   scoreCalls, df_enriched, exc, exported>>

\* SentimentEnsembler.__init__, lines 47-53 (script lines 104-115): the
\* tokenizer and the model are loaded at construction; from_pretrained raises
\* OSError when the assets are missing.  The script prints and exits 1.
Construct ==
    /\ pc = "construct"
    /\ IF assets
       THEN /\ pc' = "run"
            /\ exc' = exc
       ELSE /\ pc' = (IF caller = "script" THEN "exit1" ELSE "raised")
            /\ exc' = Raise("OSError")
    /\ UNCHANGED <<sideVars, rerunVars, call, caller, assets, columns, df, normalized, printed, records,
                   scoreCalls, df_enriched, exported>>

\* run, lines 193-198: the check of the required columns, then the empty
\* list of records every call starts from.
RunStart ==
    /\ pc = "run"
    /\ IF "normalized_review" \notin columns \/ "rating" \notin columns
       THEN /\ exc' = Raise("KeyError")
            /\ pc' = uncaught
            /\ records' = records
       ELSE /\ exc' = exc
            /\ pc' = "rows"
            /\ records' = <<>>
    /\ UNCHANGED <<sideVars, rerunVars, call, caller, assets, columns, df, normalized, printed,
                   scoreCalls, df_enriched, exported>>

\* run, lines 200-208: one iteration of the loop over the rows.
RunRow ==
    /\ pc = "rows"
    /\ Len(records) < Len(df)
    /\ LET out == run_row(df[Len(records) + 1])
       IN  /\ scoreCalls' = (IF out.scored THEN scoreCalls + 1 ELSE scoreCalls)
           /\ IF out.raised
              THEN /\ exc' = out.exc
                   /\ pc' = uncaught
                   /\ records' = records
              ELSE /\ records' = Append(records, out.rec)
                   /\ UNCHANGED <<exc, pc>>
    /\ UNCHANGED <<sideVars, rerunVars, call, caller, assets, columns, df, normalized, printed,
                   df_enriched, exported>>

\* A return that re-indexes the caller's frame in place
\* (reset_index(drop=True, inplace=True)) before the join.
RunReturn_reset_inplace ==
    /\ pc = "rows"
    /\ Len(records) = Len(df)
    /\ df' = [k \in 1..Len(df) |-> [df[k] EXCEPT !.index = k - 1]]
    /\ df_enriched' = Frame(run_result(df, records))
    /\ pc' = (IF caller = "script" THEN "tag" ELSE "returned")
    /\ UNCHANGED <<sideVars, rerunVars, call, caller, assets, columns, normalized, printed, records,
                   scoreCalls, exc, exported>>

\* run, lines 210-215 (script line 117): the result frame.
RunReturn ==
    /\ pc = "rows"
    /\ Len(records) = Len(df)
    /\ df_enriched' = Frame(run_result(df, records))
    /\ pc' = (IF caller = "script" THEN "tag" ELSE "returned")
    /\ UNCHANGED <<sideVars, rerunVars, call, caller, assets, columns, df, normalized, printed, records,
                   scoreCalls, exc, exported>>

\* The rows a direct caller adds to, or puts in place of, rows of its first
\* batch before it calls run again.
ExtraRows ==
    { [index |-> 0, review |-> NullText,
       normalized_review |-> StrCell("love"), rating |-> IntCell(2)],
      [index |-> 0, review |-> NullText,
       normalized_review |-> StrCell("awful"), rating |-> IntCell(5)] }

\* The frame d with the labels of a fresh RangeIndex.
relabel(d) == [k \in 1..Len(d) |-> [d[k] EXCEPT !.index = k - 1]]

\* The batches of a second call: the same frame, or the first one with its
\* rows reordered, one removed, one added or one changed.
SecondBatches(d) ==
    {d}
    \cup { [k \in 1..Len(d) |-> d[Len(d) + 1 - k]] }
    \cup (IF Len(d) > 0 THEN {relabel(Tail(d))} ELSE {})
    \cup (IF Len(d) < MaxRows
          THEN {relabel(Append(d, x)) : x \in ExtraRows}
               \cup {relabel(<<x>> \o d) : x \in ExtraRows}
          ELSE {})
    \cup { relabel([d EXCEPT ![k] = x]) : k \in 1..Len(d), x \in ExtraRows }

\* run, lines 173-215, called a second time on the same SentimentEnsembler:
\* the caller keeps the first result and passes a frame with the same columns.
RunAgain ==
    /\ pc = "returned"
    /\ ~first_result.set
    /\ first_df' = df
    /\ first_result' = df_enriched
    /\ df' \in SecondBatches(df)
    /\ df_enriched' = NoFrame
    /\ pc' = "run"
    /\ UNCHANGED <<sideVars, call, caller, assets, columns, normalized, printed, records,
                   scoreCalls, exc, exported>>

\* Script lines 144-151: theme tagging adds a column to a copy (the themes
\* column is not modelled).
Tag ==
    /\ pc = "tag"
    /\ pc' = "export"
    /\ UNCHANGED <<sideVars, rerunVars, call, caller, assets, columns, df, normalized, printed, records,
                   scoreCalls, df_enriched, exc, exported>>

\* Script lines 157-164: the enriched file is written.
Export ==
    /\ pc = "export"
    /\ exported' = Frame(df_enriched.rows)
    /\ pc' = "done"
    /\ UNCHANGED <<sideVars, rerunVars, call, caller, assets, columns, df, normalized, printed, records,
                   scoreCalls, df_enriched, exc>>

Next ==
    \/ Load
    \/ SourceCol
    \/ NormalizeRow
    \/ Construct
    \/ RunStart
    \/ RunRow
    \/ RunReturn
    \/ RunAgain
    \/ Tag
    \/ Export

Spec == Init /\ [][Next]_vars

-----------------------------------------------------------------------------
(* A user of the theme DataLoader: DataLoader(filepath), then load().      *)

LoaderInit ==
    /\ call = NoCall
    /\ PipeIdle
    /\ MetricsIdle
    /\ DbIdle
    /\ CleanIdle
    /\ ScrapeIdle
    /\ \E f \in CsvFiles \cup {Absent, EmptyFile} :
          files = [x \in Paths |-> IF x = "data.csv" THEN f
                                   ELSE IF x = "fixtures" THEN Directory
                                   ELSE Absent]
    /\ filepath \in PathArgs
    /\ loader = NoLoader
    /\ tpc = "start"
    /\ texc = NoThemeExc
    /\ loaded = NoThemeFrame

\* A constructor that stores the path without looking at the file system.
ConstructLoader_unchecked ==
    /\ tpc = "start"
    /\ IF ~filepath.isstr
       THEN /\ texc' = [type |-> "TypeError", names |-> {}]
            /\ tpc' = "init_raised"
            /\ loader' = loader
       ELSE /\ loader' = [built |-> TRUE, filepath |-> filepath.s]
            /\ tpc' = "built"
            /\ texc' = texc
    /\ UNCHANGED <<notTheme, files, filepath, loaded>>

\* DataLoader.__init__(filepath), lines 44-65.
ConstructLoader ==
    /\ tpc = "start"
    /\ IF ~filepath.isstr
       THEN /\ texc' = [type |-> "TypeError", names |-> {}]
            /\ tpc' = "init_raised"
            /\ loader' = loader
       ELSE IF ~isfile(files, filepath.s)
       THEN /\ texc' = [type |-> "FileNotFoundError", names |-> {}]
            /\ tpc' = "init_raised"
            /\ loader' = loader
       ELSE /\ loader' = [built |-> TRUE, filepath |-> filepath.s]
            /\ tpc' = "built"
            /\ texc' = texc
    /\ UNCHANGED <<notTheme, files, filepath, loaded>>

\* Between the construction and load() the file can be deleted: the
\* constructor keeps the path (line 65), not the file.
RemoveFile ==
    /\ tpc = "built"
    /\ isfile(files, loader.filepath)
    /\ files' = [files EXCEPT ![loader.filepath] = Absent]
    /\ UNCHANGED <<notTheme, filepath, loader, tpc, texc, loaded>>

\* pd.read_csv(self.filepath), line 77: the frame of a CSV file, or the
\* error of a path that names no file or a file without a header line
\* (pandas.errors.EmptyDataError, a subclass of ValueError).
read_csv(entry) ==
    CASE entry.kind = "csv"   -> [raises |-> "none", columns |-> entry.columns,
                                  themes |-> infer_dtype(entry.themes)]
      [] entry.kind = "empty" -> [raises |-> "EmptyDataError", columns |-> {}, themes |-> <<>>]
      [] entry.kind = "dir"   -> [raises |-> "IsADirectoryError", columns |-> {}, themes |-> <<>>]
      [] OTHER                -> [raises |-> "FileNotFoundError", columns |-> {}, themes |-> <<>>]

\* DataLoader.load(), lines 67-92.
LoadData ==
    /\ tpc = "built"
    /\ loader.built
    /\ LET df_read == read_csv(files[loader.filepath])
           missing == missing_columns(df_read.columns)
           parsed == apply_parse_themes(df_read.themes)
           failed == {k \in 1..Len(parsed) : parsed[k].raises # "none"}
       IN  IF df_read.raises # "none"
           THEN /\ texc' = [type |-> df_read.raises, names |-> {}]
                /\ tpc' = "load_raised"
                /\ loaded' = loaded
           ELSE IF missing # {}
           THEN /\ texc' = [type |-> "ValueError", names |-> missing]
                /\ tpc' = "load_raised"
                /\ loaded' = loaded
           ELSE IF failed # {}
           THEN /\ texc' = [type |-> parsed[CHOOSE k \in failed :
                                               \A j \in failed : k <= j].raises,
                            names |-> {}]
                /\ tpc' = "load_raised"
                /\ loaded' = loaded
           ELSE /\ loaded' = [set |-> TRUE, columns |-> df_read.columns,
                              themes |-> [k \in 1..Len(parsed) |-> parsed[k].val]]
                /\ tpc' = "loaded"
                /\ texc' = texc
    /\ UNCHANGED <<notTheme, files, filepath, loader>>

LoaderNext ==
    \/ ConstructLoader
    \/ RemoveFile
    \/ LoadData

SpecLoader == LoaderInit /\ [][LoaderNext]_vars

-----------------------------------------------------------------------------
(* A user of ThemeMetricsCalculator: the constructor, then                 *)
(* compute_for_bank(bank).                                                 *)

MetricsInit ==
    /\ call = NoCall
    /\ PipeIdle
    /\ ThemeIdle
    /\ DbIdle
    /\ CleanIdle
    /\ ScrapeIdle
    /\ minput \in MetricInputs
    /\ calc = NoCalc
    /\ bank \in BankArgs
    /\ mpc = "start"
    /\ mexc = NoMetricExc
    /\ metrics = NoMetrics

\* ThemeMetricsCalculator.__init__(df), lines 33-44.
ConstructCalculator ==
    /\ mpc = "start"
    /\ IF ~minput.isframe
       THEN /\ mexc' = "TypeError"
            /\ mpc' = "init_raised"
            /\ calc' = calc
       ELSE IF "bank" \notin minput.columns \/ "themes" \notin minput.columns
       THEN /\ mexc' = "ValueError"
            /\ mpc' = "init_raised"
            /\ calc' = calc
       ELSE /\ calc' = [built |-> TRUE, df |-> minput]
            /\ mpc' = "built"
            /\ mexc' = mexc
    /\ UNCHANGED <<notMetrics, minput, bank, metrics>>

\* compute_for_bank(bank), lines 46-75; groupby(...).agg raises KeyError for
\* a column of the aggregation the frame does not have.
ComputeForBank ==
    /\ mpc = "built"
    /\ calc.built
    /\ LET sub == select_bank(calc.df.rows, bank.s)
           exploded == explode(sub)
       IN  IF ~bank.isstr
           THEN /\ mexc' = "TypeError"
                /\ mpc' = "compute_raised"
                /\ metrics' = metrics
           ELSE IF sub = <<>>
           THEN /\ mexc' = "ValueError"
                /\ mpc' = "compute_raised"
                /\ metrics' = metrics
           ELSE IF ~({"review", "ensemble", "rating"} \subseteq calc.df.columns)
           THEN /\ mexc' = "KeyError"
                /\ mpc' = "compute_raised"
                /\ metrics' = metrics
           ELSE /\ \E q \in sort_values({metric_row(exploded, t) : t \in group_keys(exploded)}) :
                      metrics' = [set |-> TRUE, rows |-> q]
                /\ mpc' = "computed"
                /\ mexc' = mexc
    /\ UNCHANGED <<notMetrics, minput, calc, bank>>

MetricsNext ==
    \/ ConstructCalculator
    \/ ComputeForBank

SpecMetrics == MetricsInit /\ [][MetricsNext]_vars

-----------------------------------------------------------------------------
(* A user of OracleConnector (scripts/oracle_insert.py, or any caller):    *)
(* drop_tables, create_schema and load_data in any order, from any schema. *)

DbInit ==
    /\ call = NoCall
    /\ PipeIdle
    /\ ThemeIdle
    /\ MetricsIdle
    /\ CleanIdle
    /\ ScrapeIdle
    /\ db \in [Tables -> TableStates]
    /\ last_op = "none"
    /\ ncalls = 0
    /\ ddl = {}
    /\ oexc = "none"

\* drop_tables(), lines 117-133: reviews first, then banks.
drop_tables ==
    /\ ncalls < MaxDbCalls
    /\ ncalls' = ncalls + 1
    /\ last_op' = "drop_tables"
    /\ ddl' = {Statement("DROP", t, db) : t \in {x \in Tables : table_exists(db, x)}}
    /\ db' = drop_one(drop_one(db, "reviews"), "banks")
    /\ oexc' = "none"
    /\ UNCHANGED notDb

\* create_schema(), lines 135-182: banks first, then reviews.
create_schema ==
    /\ ncalls < MaxDbCalls
    /\ ncalls' = ncalls + 1
    /\ last_op' = "create_schema"
    /\ ddl' = {Statement("CREATE", t, db) : t \in {x \in Tables : ~table_exists(db, x)}}
    /\ db' = create_one(create_one(db, "banks"), "reviews")
    /\ oexc' = "none"
    /\ UNCHANGED notDb

\* load_data(), lines 184-279, for a CSV file with rows: the banks are
\* inserted, then the reviews. An INSERT into a missing table raises; so
\* does the INSERT of a bank name the table already holds (bank_name is
\* UNIQUE); the banks inserted before a failure of the second INSERT are
\* already committed.
load_data ==
    /\ ncalls < MaxDbCalls
    /\ ncalls' = ncalls + 1
    /\ last_op' = "load_data"
    /\ ddl' = {}
    /\ IF db["banks"].state # "empty"
       THEN /\ oexc' = "DatabaseError"
            /\ db' = db
       ELSE IF db["reviews"].state # "empty"
       THEN /\ oexc' = "DatabaseError"
            /\ db' = [db EXCEPT !["banks"].state = "rows"]
       ELSE /\ oexc' = "none"
            /\ db' = [db EXCEPT !["banks"].state = "rows", !["reviews"].state = "rows"]
    /\ UNCHANGED notDb

DbNext ==
    \/ drop_tables
    \/ create_schema
    \/ load_data

SpecDb == DbInit /\ [][DbNext]_vars

-----------------------------------------------------------------------------
(* A user of ReviewDataCleaner: load_raw_data, clean and export_cleaned in *)
(* any order.                                                              *)

CleanInit ==
    /\ call = NoCall
    /\ PipeIdle
    /\ ThemeIdle
    /\ MetricsIdle
    /\ DbIdle
    /\ ScrapeIdle
    /\ raw_file \in RawFiles
    /\ cleaner_df = NoneFrame
    /\ chist = <<>>
    /\ out_file = NoneFrame

Called(op, e) == [op |-> op, exc |-> e]

\* load_raw_data(), lines 47-65.
load_raw_data ==
    /\ Len(chist) < MaxCleanerCalls
    /\ IF ~raw_file.exists
       THEN /\ chist' = Append(chist, Called("load_raw_data", "FileNotFoundError"))
            /\ cleaner_df' = cleaner_df
       ELSE /\ chist' = Append(chist, Called("load_raw_data", "none"))
            /\ cleaner_df' = read_raw(raw_file)
    /\ UNCHANGED <<notClean, raw_file, out_file>>

\* clean(), lines 67-123; the .str accessor raises AttributeError on a
\* review column that is not of strings (float64).
clean ==
    /\ Len(chist) < MaxCleanerCalls
    /\ IF ~cleaner_df.set
       THEN /\ chist' = Append(chist, Called("clean", "ValueError"))
            /\ cleaner_df' = cleaner_df
       ELSE IF cleaner_df.float_review
       THEN /\ chist' = Append(chist, Called("clean", "AttributeError"))
            /\ cleaner_df' = cleaner_df
       ELSE /\ chist' = Append(chist, Called("clean", "none"))
            /\ cleaner_df' = CleanerFrame(cleaner_df.has_id, FALSE,
                                          clean_rows(cleaner_df.rows, cleaner_df.has_id))
    /\ UNCHANGED <<notClean, raw_file, out_file>>

\* export_cleaned(output_path), lines 125-141.
export_cleaned ==
    /\ Len(chist) < MaxCleanerCalls
    /\ IF ~cleaner_df.set
       THEN /\ chist' = Append(chist, Called("export_cleaned", "ValueError"))
            /\ out_file' = out_file
       ELSE /\ chist' = Append(chist, Called("export_cleaned", "none"))
            /\ out_file' = cleaner_df
    /\ UNCHANGED <<notClean, raw_file, cleaner_df>>

CleanNext ==
    \/ load_raw_data
    \/ clean
    \/ export_cleaned

SpecClean == CleanInit /\ [][CleanNext]_vars

-----------------------------------------------------------------------------
(* BankReviewScraper.scrape_reviews, called by scraping_runner.py for each *)
(* bank on a new scraper, or by a direct caller on a scraper of its own.   *)

ScrapeInit ==
    /\ call = NoCall
    /\ PipeIdle
    /\ ThemeIdle
    /\ MetricsIdle
    /\ DbIdle
    /\ CleanIdle
    /\ runner \in BOOLEAN
    /\ sbank = 0
    /\ all_reviews = 0
    /\ target_count \in (IF runner THEN {REVIEW_TARGET} ELSE Targets)
    /\ reviews_raw = EmptyReviews
    /\ scrapes = 0
    /\ spc = "idle"
    /\ collected = 0
    /\ token = NoToken
    /\ fetches = 0
    /\ request = NoRequest
    /\ sexc = "none"

\* scrape_reviews, lines 78-79: the locals before the loop.
EnterScrape ==
    /\ spc' = "loop"
    /\ collected' = 0
    /\ token' = NoToken
    /\ fetches' = 0
    /\ request' = NoRequest
    /\ sexc' = "none"

\* Runner, lines 70-83: the next bank, a new scraper, scrape_reviews().
RunnerScrape ==
    /\ runner
    /\ spc = "idle"
    /\ sbank < NumBanks
    /\ sbank' = sbank + 1
    /\ reviews_raw' = EmptyReviews
    /\ scrapes' = 1
    /\ EnterScrape
    /\ UNCHANGED <<notScrape, runner, all_reviews, target_count>>

\* Runner, lines 86 and 92-93: the reviews of the bank are added to
\* all_reviews, or the exception is printed and the loop goes on.
RunnerCollect ==
    /\ runner
    /\ spc \in {"returned", "raised"}
    /\ all_reviews' = (IF spc = "returned" THEN all_reviews + reviews_raw.n ELSE all_reviews)
    /\ spc' = "idle"
    /\ UNCHANGED <<notScrape, runner, sbank, target_count, reviews_raw, scrapes, collected,
                   token, fetches, request, sexc>>

\* A direct caller calls scrape_reviews(), on a scraper that may have
\* scraped before.
DirectScrape ==
    /\ ~runner
    /\ spc \in {"idle", "returned", "raised"}
    /\ scrapes < MaxScrapes
    /\ scrapes' = scrapes + 1
    /\ EnterScrape
    /\ UNCHANGED <<notScrape, runner, sbank, all_reviews, target_count, reviews_raw>>

\* One iteration of the loop, lines 86-111: the fetch raises, or returns a
\* batch and a token.
FetchPage ==
    /\ spc = "loop"
    /\ collected < target_count
    /\ request' = Request(Min(PageMax, target_count - collected), token)
    /\ fetches' = fetches + 1
    /\ \/ /\ sexc' = "RuntimeError"
          /\ spc' = "raised"
          /\ UNCHANGED <<collected, token>>
       \/ \E size \in BatchSizes, next \in {NoToken, Token(fetches + 1)} :
             /\ token' = next
             /\ IF size = 0
                THEN /\ spc' = "after"
                     /\ collected' = collected
                ELSE /\ collected' = collected + size
                     /\ spc' = (IF next.none THEN "after" ELSE "loop")
             /\ sexc' = sexc
    /\ UNCHANGED <<notScrape, runner, sbank, all_reviews, target_count, reviews_raw, scrapes>>

\* The loop condition is false, line 86.
LoopEnd ==
    /\ spc = "loop"
    /\ ~(collected < target_count)
    /\ spc' = "after"
    /\ UNCHANGED <<notScrape, runner, sbank, all_reviews, target_count, reviews_raw, scrapes,
                   collected, token, fetches, request, sexc>>

\* Lines 113-116, after the loop.
AfterLoop ==
    /\ spc = "after"
    /\ IF collected = 0
       THEN /\ sexc' = "RuntimeError"
            /\ spc' = "raised"
            /\ reviews_raw' = reviews_raw
       ELSE /\ reviews_raw' = format_full_reviews(collected, scrapes)
            /\ spc' = "returned"
            /\ sexc' = sexc
    /\ UNCHANGED <<notScrape, runner, sbank, all_reviews, target_count, scrapes, collected,
                   token, fetches, request>>

ScrapeNext ==
    \/ RunnerScrape
    \/ RunnerCollect
    \/ DirectScrape
    \/ FetchPage
    \/ LoopEnd
    \/ AfterLoop

SpecScrape == ScrapeInit /\ [][ScrapeNext]_vars

-----------------------------------------------------------------------------
(* Properties of the pure methods (specification SpecFn).                  *)

\* The table of section 4.4 of the specification: rating -> admissible labels.
SpecAllowed(rating) ==
    CASE rating \in {3, 4, 5} -> {"positive", "neutral", "negative"}
      [] rating = 2           -> {"neutral", "negative"}
      [] rating = 1           -> {"negative"}

\* numeric(label) of section 4.5, in ensemble units.
SpecNumeric(l) ==
    CASE l = "positive" -> EnsDen
      [] l = "neutral"  -> 0
      [] l = "negative" -> 0 - EnsDen

\* C1: for every ensemble label and every rating in 1..5, the rule label
\* returned by apply_rating_rule is in the allowed set of the rating.
C1_RuleLabelInAllowed ==
    (call.fn = "apply_rating_rule" /\ call.rating \in 1..5)
        => call.ret \in SpecAllowed(call.rating)

C3_FlagIff ==
    call.fn = "flag_disagreement"
        => LET diff == call.score - SpecNumeric(call.rule_label)
               num  == call.threshold[1]
               den  == call.threshold[2]
               far  == \/ diff * den > num * EnsDen
                       \/ (0 - diff) * den > num * EnsDen
           IN  call.flag <=> (call.label # call.rule_label /\ far)

\* C3 witness: a label mismatch at distance exactly 0.5 under the default
\* threshold 0.5 was not flagged.
C3_Witness ==
    /\ call.fn = "flag_disagreement"
    /\ call.threshold = DefaultThreshold
    /\ call.label = "positive"
    /\ call.rule_label = "neutral"
    /\ 2 * call.score = EnsDen
    /\ call.flag = FALSE

\* C4: the label is positive iff ensemble >= 0.05, negative iff
\* ensemble <= -0.05 and neutral otherwise (inclusive thresholds, one label).
C4_LabelThresholds ==
    call.fn = "compute_ensemble"
        => LET e == call.rec.ensemble
               l == call.rec.label
           IN  /\ l \in Labels
               /\ (l = "positive") <=> (20 * e >= EnsDen)
               /\ (l = "negative") <=> (20 * e <= 0 - EnsDen)
               /\ (l = "neutral")  <=> (20 * e < EnsDen /\ 20 * e > 0 - EnsDen)

\* C4 witness: an ensemble score of exactly 0.05 was labelled positive.
C4_Witness ==
    /\ call.fn = "compute_ensemble"
    /\ 20 * call.rec.ensemble = EnsDen
    /\ call.rec.label = "positive"

\* C5: the ensemble field is the equal-weight mean of the bert, vader and
\* textblob fields of the same record.
C5_EqualWeightMean ==
    call.fn = "compute_ensemble"
        => 3 * call.rec.ensemble * ScoreDen
               = (call.rec.bert + call.rec.vader + call.rec.textblob) * EnsDen

\* C5 witness: three different scorer values (1.0, -1.0, 0.5) were averaged.
C5_Witness ==
    /\ call.fn = "compute_ensemble"
    /\ call.rec.bert = ScoreDen
    /\ call.rec.vader = 0 - ScoreDen
    /\ 2 * call.rec.textblob = ScoreDen
    /\ 6 * call.rec.ensemble = EnsDen

-----------------------------------------------------------------------------
(* Properties of run and of the pipeline (specification Spec).             *)

\* run has ended: it returned a frame or raised.
RunEnded ==
    \/ df_enriched.set
    \/ (pc \in {"raised", "crashed"} /\ exc.type # "OSError")

\* An iteration of the loop of run raised; the row it was working on.
RowFailed == pc \in {"raised", "crashed"} /\ exc.type \notin {"OSError", "KeyError"}

FailedRow == Len(records) + 1

\* The k-th input row is not a ReviewInput: null text, or a rating that is
\* null, not an integer or outside 1..5.
InvalidInput(k) ==
    \/ df[k].normalized_review.null
    \/ df[k].rating.kind # "int"
    \/ df[k].rating.num \notin 1..5

\* The result of run holds a sentiment record for the k-th input row.
HasRecord(k) ==
    /\ df_enriched.set
    /\ k <= Len(df_enriched.rows)
    /\ df_enriched.rows[k].has_sent

\* C6: run returns exactly as many records as it was given reviews, and the
\* i-th output record carries the i-th input row and the sentiment fields
\* computed from that row's text and rating, whatever the index of df.
C6_OneToOneInOrder ==
    df_enriched.set
        => /\ Len(df_enriched.rows) = Len(df)
           /\ \A k \in 1..Len(df) :
                /\ k <= Len(df_enriched.rows)
                /\ df_enriched.rows[k].has_orig
                /\ df_enriched.rows[k].orig = cells_of(df[k])
                /\ df_enriched.rows[k].has_sent
                /\ df_enriched.rows[k].sent = run_row(df[k]).rec

\* C6 witness: run returned on two rows with different sentiment records and
\* an index that is not the default RangeIndex.
C6_Witness ==
    /\ df_enriched.set
    /\ Len(df) = 2
    /\ df[1].index # 0
    /\ run_row(df[1]).rec # run_row(df[2]).rec
    /\ df_enriched.rows[1].sent = run_row(df[1]).rec

\* C7: an input record with missing or invalid text or rating is never
\* scored silently: once run has ended, either the batch was aborted with a
\* validation error or the record has no sentiment record; a missing column
\* aborts the batch.  (KeyError and ValueError are counted as validation errors.)
C7_InvalidNeverScored ==
    RunEnded
        => LET aborted == /\ pc \in {"raised", "crashed"}
                          /\ exc.type \in {"ValidationError", "KeyError", "ValueError"}
           IN  /\ ("rating" \notin columns \/ "normalized_review" \notin columns) => aborted
               /\ \A k \in 1..Len(df) : InvalidInput(k) => (aborted \/ ~HasRecord(k))

\* C8: when one record fails in run, the failure is surfaced (an exception or a
\* printed diagnostic counts) and every other record that can be processed
\* still has its own result in the output.
C8_FailureIsolated ==
    RowFailed
        => /\ (exc # NoExc \/ FailedRow \in printed)
           /\ \A j \in 1..Len(df) :
                (j # FailedRow /\ ~run_row(df[j]).raised)
                    => /\ df_enriched.set
                       /\ \E k \in 1..Len(df_enriched.rows) :
                            /\ df_enriched.rows[k].orig = cells_of(df[j])
                            /\ df_enriched.rows[k].has_sent
                            /\ df_enriched.rows[k].sent = run_row(df[j]).rec

\* C9: when the underlying tool raises, the scorer adapter fails with a
\* ScoringError that carries the offending text and the original cause.
C9_ScoringErrorRaised ==
    (call.fn = "scorer_adapter" /\ call.tool.raised)
        => /\ call.out.raised
           /\ call.out.exc.type = "ScoringError"
           /\ call.out.exc.text = call.text
           /\ call.out.exc.cause = call.tool.exc.type

\* C10: when the DistilBERT assets are unavailable, the failure is raised at
\* construction: run is never entered, no review is scored, no sentiment
\* record is returned and no enriched file is exported.
C10_NoAssetsNoOutput ==
    ~assets
        => /\ pc \in {"load", "source_col", "normalize", "construct", "exit1", "raised"}
           /\ (pc = "raised" => exc.type = "OSError")
           /\ scoreCalls = 0
           /\ records = <<>>
           /\ ~df_enriched.set
           /\ ~exported.set

\* C10 witness: the construction failed on a non-empty batch and the program ended.
C10_Witness ==
    /\ ~assets
    /\ Len(df) > 0
    /\ pc \in {"exit1", "raised"}
    /\ exc.type = "OSError"

-----------------------------------------------------------------------------
(* Properties of single records (specification SpecFn).                    *)

\* C14: for rating 2 the rule label is never "positive", whatever the
\* ensemble label: in a direct call of apply_rating_rule and in a record
\* built by the loop body of run.
C14_RatingTwoNeverPositive ==
    /\ (call.fn = "apply_rating_rule" /\ call.rating = 2) => call.ret # "positive"
    /\ (call.fn = "score_record" /\ call.rating = 2) => call.full.rule_label # "positive"

C14_Witness ==
    /\ call.fn = "apply_rating_rule"
    /\ call.rating = 2
    /\ call.label = "positive"
    /\ call.ret = "neutral"

\* C15: whenever the ensemble label equals the rule label the flag is false,
\* for every ensemble score, rating and threshold; scorer values
\* (0.05, 0.05, 0.05) with rating 5 give label positive, rule label positive
\* and flag false.
C15_AgreementNeverFlagged ==
    /\ (call.fn = "flag_disagreement" /\ call.label = call.rule_label) => ~call.flag
    /\ (call.fn = "score_record" /\ call.full.label = call.full.rule_label)
         => ~call.full.flag
    /\ ( /\ call.fn = "score_record"
         /\ call.rating = 5
         /\ 20 * call.full.bert = ScoreDen
         /\ 20 * call.full.vader = ScoreDen
         /\ 20 * call.full.textblob = ScoreDen )
         => /\ call.full.label = "positive"
            /\ call.full.rule_label = "positive"
            /\ ~call.full.flag

\* Equal labels whose numeric distance is above the threshold.
C15_Witness ==
    /\ call.fn = "flag_disagreement"
    /\ call.label = "positive"
    /\ call.rule_label = "positive"
    /\ call.score = 0 - EnsDen
    /\ call.threshold = DefaultThreshold
    /\ ~call.flag

\* The scorer values of a record, as deviations from their mean in ensemble
\* units (three times the value, minus the sum).
Dev(rec, s) == 3 * s - (rec.bert + rec.vader + rec.textblob)

SumSqDev(rec) ==
    Dev(rec, rec.bert) * Dev(rec, rec.bert)
        + Dev(rec, rec.vader) * Dev(rec, rec.vader)
        + Dev(rec, rec.textblob) * Dev(rec, rec.textblob)

AltScores == {s \in Scores : s % (ScoreDen \div 2) = 0}

\* C18: uncertainty does not influence the decisions: a record and any
\* record built from other scorer values with the same sum (hence the same
\* ensemble score, but another spread) and the same rating have the same
\* label, rule label and flag.
C18_DecisionsIgnoreUncertainty ==
    call.fn = "score_record" =>
        \A b2 \in AltScores, v2 \in AltScores :
            LET t2 == call.full.bert + call.full.vader + call.full.textblob - b2 - v2
            IN  t2 \in Scores =>
                  LET other == with_rule(ensemble_record(b2, v2, t2), call.rating)
                  IN  /\ other.ensemble = call.full.ensemble
                      /\ other.label = call.full.label
                      /\ other.rule_label = call.full.rule_label
                      /\ other.flag = call.full.flag

\* A record whose scorers disagree as much as they can, with ensemble 0 like
\* the record of three zeros, under a rating whose rule replaces no label.
C18_Witness ==
    /\ call.fn = "score_record"
    /\ call.rating = 5
    /\ call.full.bert = ScoreDen
    /\ call.full.vader = 0 - ScoreDen
    /\ call.full.textblob = 0
    /\ call.full.uncertainty > 0
    /\ ~call.full.flag

-----------------------------------------------------------------------------
(* Two calls of run on one SentimentEnsembler (specification Spec).        *)

BothReturned == first_result.set /\ df_enriched.set

\* The sentiment fields of the rows of a returned frame, in order.
SentOf(frame) == [k \in 1..Len(frame.rows) |-> frame.rows[k].sent]

SameInput(r1, r2) ==
    /\ r1.normalized_review = r2.normalized_review
    /\ r1.rating = r2.rating

\* C12: a record's sentiment fields depend only on its own text and rating:
\* whenever two calls of run return, on batches that differ by reordered,
\* removed, added or changed rows, a row of one and a row of the other (or
\* two rows of the same batch) with the same text and rating carry the same
\* sentiment fields, whatever their positions and their neighbours.
C12_RecordIndependent ==
    /\ BothReturned =>
          \A i \in 1..Len(first_df), j \in 1..Len(df) :
              SameInput(first_df[i], df[j]) =>
                  first_result.rows[i].sent = df_enriched.rows[j].sent
    /\ df_enriched.set =>
          \A i, j \in 1..Len(df) :
              SameInput(df[i], df[j]) =>
                  df_enriched.rows[i].sent = df_enriched.rows[j].sent

C12_Witness ==
    /\ BothReturned
    /\ Len(first_df) = 1
    /\ Len(df) = 2
    /\ SameInput(first_df[1], df[2])
    /\ ~SameInput(first_df[1], df[1])

\* The names of the fields run adds to a record.
SentimentFields ==
    {"bert", "vader", "textblob", "ensemble", "label", "uncertainty",
     "rule_label", "flag"}

C13_Step ==
    /\ pc \in {"run", "rows"} => df' = df
    /\ (~df_enriched.set /\ df_enriched'.set) =>
          /\ Len(df_enriched'.rows) = Len(df)
          /\ \A k \in 1..Len(df) :
                LET row == df_enriched'.rows[k]
                IN  /\ row.has_orig
                    /\ row.orig = cells_of(df[k])
                    /\ row.has_sent
                    /\ DOMAIN row.sent = SentimentFields

\* C13: from the call of run to its return the caller's frame is not
\* modified, and the frame run returns for any batch, the empty one included,
\* holds one row per input row with the input row's own cells unchanged and
\* with exactly the fields bert, vader, textblob, ensemble, label,
\* uncertainty, rule_label and flag added.
C13_FrameEffect == [][C13_Step]_vars

C13_Witness ==
    /\ df_enriched.set
    /\ Len(df) = 2
    /\ df[1].index # 0
    /\ ~SameInput(df[1], df[2])

-----------------------------------------------------------------------------
(* Properties of the theme DataLoader (specification SpecLoader).          *)

C19_Step ==
    /\ (tpc = "start" /\ tpc' # "start") =>
          /\ ~filepath.isstr =>
                (tpc' = "init_raised" /\ texc'.type = "TypeError" /\ ~loader'.built)
          /\ (filepath.isstr /\ ~isfile(files, filepath.s)) =>
                (tpc' = "init_raised" /\ texc'.type = "FileNotFoundError"
                    /\ ~loader'.built)
    /\ (~loader.built /\ loader'.built) =>
          /\ tpc = "start"
          /\ filepath.isstr
          /\ loader'.filepath = filepath.s
          /\ isfile(files, filepath.s)
    /\ loader.built => loader' = loader
    /\ (tpc' \in {"loaded", "load_raised"} /\ tpc' # tpc) => loader.built
    /\ loaded' # loaded => loader.built

\* C19: DataLoader(filepath) validates its path before any load: a
\* non-string raises TypeError and a string that names no existing file
\* raises FileNotFoundError, both in the constructor, which then builds no
\* loader; a loader is built only on a string path that names a file at that
\* moment, keeps that path, and load() acts only on a built loader.
C19_PathValidatedAtConstruction == [][C19_Step]_vars

C19_Witness ==
    /\ tpc = "init_raised"
    /\ texc.type = "FileNotFoundError"
    /\ filepath.isstr
    /\ filepath.s = "nonexistent.csv"
    /\ ~loader.built

\* C20: when load() has ended on a CSV file that lacks some of the columns
\* review, rating, ensemble, bank, themes, date, it has raised ValueError,
\* the message holds exactly the missing columns, and no DataFrame was
\* returned; a returned DataFrame has all six columns.
C20_MissingColumnsRaise ==
    /\ tpc \in {"loaded", "load_raised"} =>
          LET f == files[loader.filepath]
          IN  (f.kind = "csv" /\ required \ f.columns # {}) =>
                  /\ tpc = "load_raised"
                  /\ texc.type = "ValueError"
                  /\ texc.names = required \ f.columns
                  /\ ~loaded.set
    /\ loaded.set => required \subseteq loaded.columns

C20_Witness ==
    /\ tpc = "load_raised"
    /\ texc.type = "ValueError"
    /\ "themes" \in texc.names
    /\ Cardinality(texc.names) >= 2
    /\ ~loaded.set

\* The fields of the themes column of the file load() has read.
FileThemes == files[loader.filepath].themes

\* C21: after load every non-null entry of the themes column is a list: the
\* list a cell parses to, the one-element list of the literal a cell parses
\* to, or, for a cell that does not parse, the one-element list of the
\* cell's own text; no cell makes load fail.
C21_ThemesAreLists ==
    /\ loaded.set =>
          \A k \in 1..Len(loaded.themes) :
              ~loaded.themes[k].nan =>
                  /\ loaded.themes[k].list
                  /\ FileThemes[k].text \in {"[UX, Fees", "UX", "{['UX']}"}
                       => loaded.themes[k].items = <<FileThemes[k].text>>
    /\ ( /\ tpc = "load_raised"
         /\ files[loader.filepath].kind = "csv"
         /\ required \subseteq files[loader.filepath].columns )
         => texc.type = "none"

\* C22: load drops no row: the frame it returns has one row per data row of
\* the file, in the file's order; a row with an empty themes field keeps
\* its null, a row with a malformed one gets the list of its text.
C22_NoRowDropped ==
    loaded.set =>
        /\ Len(loaded.themes) = Len(FileThemes)
        /\ \A k \in 1..Len(FileThemes) :
              /\ loaded.themes[k].nan <=> FileThemes[k].nan
              /\ FileThemes[k].text = "[UX, Fees"
                   => loaded.themes[k] = ThemesList(<<"[UX, Fees">>)

C22_Witness ==
    /\ loaded.set
    /\ Len(loaded.themes) = 2
    /\ FileThemes[1].nan
    /\ FileThemes[2].text = "[UX, Fees"

-----------------------------------------------------------------------------
(* Properties of ThemeMetricsCalculator (specification SpecMetrics).       *)

\* C23: the constructor raises TypeError for an argument that is no
\* DataFrame and ValueError for a DataFrame that lacks one of the documented
\* columns review, rating, ensemble, bank, themes, so a calculator is built,
\* and compute_for_bank runs, only on a DataFrame with all of them.
C23_ConstructorValidates ==
    /\ (mpc # "start" /\ ~minput.isframe) => (mexc = "TypeError" /\ ~calc.built)
    /\ (mpc # "start" /\ minput.isframe /\ ~(documented_columns \subseteq minput.columns))
         => (mpc = "init_raised" /\ mexc = "ValueError" /\ ~calc.built)
    /\ calc.built => documented_columns \subseteq calc.df.columns
    /\ mpc \in {"computed", "compute_raised"}
         => documented_columns \subseteq calc.df.columns

C24_Step ==
    (mpc = "built" /\ mpc' # "built") =>
        /\ ~bank.isstr =>
              (mpc' = "compute_raised" /\ mexc' = "TypeError" /\ ~metrics'.set)
        /\ ( /\ bank.isstr
             /\ \A k \in 1..Len(calc.df.rows) : calc.df.rows[k].bank # bank.s )
             => (mpc' = "compute_raised" /\ mexc' = "ValueError" /\ ~metrics'.set)
        /\ calc' = calc

\* C24: compute_for_bank raises TypeError for a bank that is no string and
\* ValueError for a bank no row of the dataset has; it returns no metrics
\* then, and in every case leaves the calculator's stored DataFrame as it
\* was.
C24_BankValidated == [][C24_Step]_vars

C24_Witness ==
    /\ mpc = "compute_raised"
    /\ mexc = "ValueError"
    /\ bank.s = "ZebraBank"
    /\ Len(calc.df.rows) > 0
    /\ ~metrics.set

\* The rows of the stored frame that belong to the bank and are tagged with
\* theme t.
Tagged(t) ==
    SelectSeq(calc.df.rows,
              LAMBDA r : /\ r.bank = bank.s
                         /\ ~r.themes.nan
                         /\ \E i \in 1..Len(r.themes.items) : r.themes.items[i] = t)

BankThemes ==
    UNION {{calc.df.rows[k].themes.items[i] : i \in 1..Len(calc.df.rows[k].themes.items)} :
              k \in {j \in 1..Len(calc.df.rows) : calc.df.rows[j].bank = bank.s}}

\* C25: for a bank that has rows, the metrics hold one row per distinct
\* theme of the bank's reviews, with mentions the number of the bank's
\* reviews tagged with the theme, avg_sentiment and avg_rating the means of
\* ensemble and rating over those reviews, composite_score their product
\* with mentions, in descending order of mentions; no review of another
\* bank counts.
C25_MetricsPerTheme ==
    metrics.set =>
        /\ {metrics.rows[k].themes : k \in 1..Len(metrics.rows)} = BankThemes
        /\ Len(metrics.rows) = Cardinality(BankThemes)
        /\ \A i, j \in 1..Len(metrics.rows) :
              i < j => metrics.rows[i].mentions >= metrics.rows[j].mentions
        /\ \A k \in 1..Len(metrics.rows) :
              LET m == metrics.rows[k]
                  revs == Tagged(m.themes)
                  n == Len(revs)
                  sum_e == SeqSum([x \in 1..n |-> revs[x].ensemble])
                  sum_r == SeqSum([x \in 1..n |-> revs[x].rating])
              IN  /\ m.mentions = n
                  /\ m.avg_sentiment[1] * n = sum_e * m.avg_sentiment[2]
                  /\ m.avg_rating[1] * n = sum_r * m.avg_rating[2]
                  /\ m.composite_score[1] * m.avg_sentiment[2] * m.avg_rating[2]
                       = m.mentions * m.avg_sentiment[1] * m.avg_rating[1]
                           * m.composite_score[2]

-----------------------------------------------------------------------------
(* Properties of OracleConnector (specification SpecDb).                   *)

SameTables(d1, d2) == \A t \in Tables : table_exists(d1, t) <=> table_exists(d2, t)

C26_Idempotent ==
    /\ (last_op = "drop_tables" /\ last_op' = "drop_tables") => SameTables(db, db')
    /\ (last_op = "create_schema" /\ last_op' = "create_schema") => SameTables(db, db')
    /\ \A a \in ddl' :
          /\ (a.stmt = "DROP") => (a.before # "absent")
          /\ (a.stmt = "CREATE") => (a.before = "absent")

C26_Step ==
    /\ C26_Idempotent
    /\ (last_op = "drop_tables" /\ last_op' = "create_schema")
         => \A t \in Tables : db'[t].state = "empty"

\* C26: drop_tables and create_schema are idempotent: a second call in a
\* row leaves the set of tables of the first; DROP is executed only for a
\* table that exists and CREATE only for one that is missing; and after
\* drop_tables followed by create_schema, banks and reviews both exist and
\* are empty.
C26_IdempotentSchema == [][C26_Step]_vars


-----------------------------------------------------------------------------
(* C27                                                                     *)

\* Rows that are cleaned data: no null required field, no blank review, and
\* no reviewId twice.
IsCleaned(f) ==
    /\ \A k \in 1..Len(f.rows) :
          /\ ~f.rows[k].review.null
          /\ ~f.rows[k].required_null
          /\ strip(f.rows[k].review.s) # ""
    /\ f.has_id =>
          \A j, k \in 1..Len(f.rows) : (j # k) => (f.rows[j].reviewId # f.rows[k].reviewId)

\* Claim C27: whatever the order of the calls, clean() before the data is
\* loaded raises ValueError, export_cleaned() raises ValueError unless a
\* clean() has run before it, and so the file export_cleaned wrote holds
\* cleaned data: no null required field, no blank review, no reviewId twice.
\* Violated: export_cleaned only tests self.df for None, so after
\* load_raw_data() it writes the raw rows.
C27_ExportOnlyCleaned ==
    /\ \A k \in 1..Len(chist) :
          /\ (chist[k].op = "clean"
                 /\ \A j \in 1..(k - 1) : ~(chist[j].op = "load_raw_data" /\ chist[j].exc = "none"))
               => (chist[k].exc = "ValueError")
          /\ (chist[k].op = "export_cleaned"
                 /\ \A j \in 1..(k - 1) : ~(chist[j].op = "clean" /\ chist[j].exc = "none"))
               => (chist[k].exc = "ValueError")
    /\ out_file.set => IsCleaned(out_file)

-----------------------------------------------------------------------------
(* C28, on the records the loop body of run builds (specification SpecFn). *)

\* Claim C28: with the default threshold a record is flagged only if its
\* ensemble label is "positive", its rating is below 3 and its ensemble
\* score is above 0.5; a record whose ensemble label is "negative" or
\* "neutral" is never flagged, whatever the rating; and for the ratings 3, 4
\* and 5 the rule label equals the label and the flag is false.
C28_FlagOnlyLowRatedPositive ==
    (call.fn = "score_record") =>
        LET r == call.full
        IN  /\ r.flag =>
                  /\ r.label = "positive"
                  /\ call.rating < 3
                  /\ r.ensemble * ThresholdDen > DefaultThresholdNum * EnsDen
            /\ (r.label \in {"negative", "neutral"}) => ~r.flag
            /\ (call.rating \in 3..5) => (r.rule_label = r.label /\ ~r.flag)

\* A 5-star review with strongly negative text, left unflagged.
C28_Witness ==
    /\ call.fn = "score_record"
    /\ call.rating = 5
    /\ call.full.ensemble = 0 - EnsDen
    /\ call.full.label = "negative"
    /\ call.full.rule_label = "negative"
    /\ ~call.full.flag

-----------------------------------------------------------------------------
(* C29, on the loop of run (specification Spec).                           *)

\* The row the loop of run is about to score has an integer rating outside
\* 1..5 and a text the scorers accept.
OutOfRangeRow ==
    /\ pc = "rows"
    /\ Len(records) < Len(df)
    /\ df[Len(records) + 1].rating.kind = "int"
    /\ PyInt(df[Len(records) + 1].rating) \notin 1..5
    /\ ~compute_ensemble(PyStr(df[Len(records) + 1].normalized_review)).raised

\* Claim C29: apply_rating_rule rejects no integer rating: a rating above 5
\* is treated like 5 (every label allowed, the label is kept) and a rating
\* below 1 like 1 (only "negative" allowed, any other label becomes
\* "neutral"), so the iteration of run on a row with an out-of-range rating
\* raises nothing and appends a record.
C29_Step ==
    OutOfRangeRow =>
        LET rating == PyInt(df[Len(records) + 1].rating)
            rec == records'[Len(records')]
        IN  /\ exc' = exc
            /\ pc' = pc
            /\ Len(records') = Len(records) + 1
            /\ (rating > 5) =>
                  /\ rec.rule_label = rec.label
                  /\ rec.rule_label = apply_rating_rule(rec.label, 5)
            /\ (rating < 1) =>
                  /\ rec.rule_label = (IF rec.label = "negative" THEN "negative" ELSE "neutral")
                  /\ rec.rule_label = apply_rating_rule(rec.label, 1)

C29_OutOfRangeTotal == [][C29_Step]_vars

\* A finished run whose frame holds a rating 0 with a positive text and a
\* rating 7.
C29_Witness ==
    /\ df_enriched.set
    /\ \E j, k \in 1..Len(df_enriched.rows) :
          /\ df[j].rating = IntCell(0)
          /\ df_enriched.rows[j].sent.label = "positive"
          /\ df_enriched.rows[j].sent.rule_label = "neutral"
          /\ df[k].rating = IntCell(7)
          /\ df_enriched.rows[k].sent.rule_label = df_enriched.rows[k].sent.label

-----------------------------------------------------------------------------
(* C30, on the steps of scrape_reviews (specification SpecScrape).         *)

\* Claim C30: scrape_reviews terminates when every fetch returns: each
\* fetch is made while collected < target_count, asks for
\* min(200, target_count - collected) reviews and passes the token of the
\* page before it (None for the first page); the loop goes on only after a
\* non-empty page with a token, which makes collected grow, so there are at
\* most target_count fetches; the call ends either with reviews_raw set to
\* the formatted collected reviews or, when nothing was collected or a
\* fetch failed, with RuntimeError and reviews_raw as it was before.
C30_Step ==
    /\ (fetches' = fetches + 1) =>
          /\ spc = "loop"
          /\ collected < target_count
          /\ request'.count <= PageMax
          /\ request'.count <= target_count - collected
          /\ request'.count = PageMax \/ request'.count = target_count - collected
          /\ request'.token = token
          /\ request'.token = (IF fetches = 0 THEN NoToken ELSE Token(fetches))
          /\ fetches' <= target_count
          /\ (spc' = "loop") =>
                /\ collected' > collected
                /\ ~token'.none
          /\ (spc' = "after") => (collected' = collected \/ token'.none)
          /\ (spc' = "raised") => (sexc' = "RuntimeError" /\ reviews_raw' = reviews_raw)
          /\ spc' \in {"loop", "after", "raised"}
    /\ (spc = "loop" /\ fetches' = fetches /\ spc' # spc) =>
          /\ collected >= target_count
          /\ spc' = "after"
    /\ (spc = "after" /\ spc' # spc) =>
          IF collected = 0
          THEN spc' = "raised" /\ sexc' = "RuntimeError" /\ reviews_raw' = reviews_raw
          ELSE /\ spc' = "returned"
               /\ sexc' = "none"
               /\ reviews_raw' = format_full_reviews(collected, scrapes)
    /\ (spc \in {"loop", "after"} /\ spc' # "returned") => (reviews_raw' = reviews_raw)

====
